---------------------------- MODULE Spec2Model ----------------------------
(***************************************************************************)
(* axum-signed-urls: the `build` function that issues a signed URL and the *)
(* `SignedUrl` extractor that guards a handler (src/src/lib.rs).           *)
(*                                                                         *)
(* A string is a sequence of one-character strings.  The state is the      *)
(* process environment (AXUM_SECRET), the last `build` call with its       *)
(* result, and the last request handed to the extractor with its result    *)
(* and the locals the extractor computed on the way.                       *)
(*                                                                         *)
(* The `qstring` crate (QString::from / new / add_pair / into_pairs /      *)
(* Display) and `http::Uri` are modelled by what they do on the call       *)
(* sites of lib.rs: parsing percent-decodes keys and values, Display       *)
(* percent-encodes them.  HMAC-SHA256 is the trusted primitive; it is      *)
(* modelled collision-free, and hex::encode yields a string of hex digits. *)
(* The escapes of the model are those over the digits 2, 3 and 5 (%22,     *)
(* %23, %25, %32, %33, %35, %52, %53, %55); each names a character of the  *)
(* model.                                                                  *)
(***************************************************************************)
EXTENDS Integers, Sequences, FiniteSets, TLC

VARIABLES secret, built, request, outcome

vars == <<secret, built, request, outcome>>

(***************************************************************************)
(* Bounds of the model.                                                    *)
(***************************************************************************)
\* the largest number of entries of a parameter mapping given to build
MaxParams == 2
\* the largest number of parameters of a hand-made request
MaxSegs == 3

(***************************************************************************)
(* Characters and strings.                                                 *)
(***************************************************************************)
\* The characters of the model with their byte values (ASCII).
Code ==
    [c \in {"\"", "#", "%", "&", "/", "2", "3", "5", "=", "?", "R", "S", "U",
            "a", "e", "g", "i", "n", "p", "r", "s", "t", "u"} |->
        CASE c = "\"" -> 34 [] c = "#" -> 35 [] c = "%" -> 37 [] c = "&" -> 38
          [] c = "/" -> 47 [] c = "2" -> 50 [] c = "3" -> 51 [] c = "5" -> 53
          [] c = "=" -> 61 [] c = "?" -> 63 [] c = "R" -> 82 [] c = "S" -> 83
          [] c = "U" -> 85 [] c = "a" -> 97 [] c = "e" -> 101 [] c = "g" -> 103
          [] c = "i" -> 105 [] c = "n" -> 110 [] c = "p" -> 112 [] c = "r" -> 114
          [] c = "s" -> 115 [] c = "t" -> 116 [] c = "u" -> 117]

Alphabet == DOMAIN Code

\* the suffix of s that starts at position i
From(s, i) == SubSeq(s, i, Len(s))

\* the prefix of s that ends before position i
Upto(s, i) == SubSeq(s, 1, i - 1)

\* str::find(char): the first position of c in s, 0 for None
Find(s, c) ==
    LET at == {i \in 1..Len(s) : s[i] = c}
    IN  IF at = {} THEN 0 ELSE CHOOSE i \in at : \A j \in at : i <= j

\* Ord::cmp on str: byte-wise lexicographic order, a < b
RECURSIVE StrLess(_, _)
StrLess(a, b) ==
    IF b = <<>> THEN FALSE
    ELSE IF a = <<>> THEN TRUE
    ELSE IF Code[Head(a)] # Code[Head(b)] THEN Code[Head(a)] < Code[Head(b)]
    ELSE StrLess(Tail(a), Tail(b))

\* the key of the signature parameter
SIGNATURE == <<"s", "i", "g", "n", "a", "t", "u", "r", "e">>


(***************************************************************************)
(* percent-encoding, as qstring applies it to every key and value.         *)
(***************************************************************************)
\* the value of a hexadecimal digit
HexVal == [c \in {"2", "3", "5", "a", "e"} |->
            CASE c = "2" -> 2 [] c = "3" -> 3 [] c = "5" -> 5
              [] c = "a" -> 10 [] c = "e" -> 14]

\* the byte an escape %h1h2 stands for
EscapedByte(h1, h2) == 16 * HexVal[h1] + HexVal[h2]

\* Whether s starts with an escape the model has a character for.  The
\* inputs of the model hold no other escape.
StartsWithEscape(s) ==
    /\ Len(s) >= 3
    /\ s[1] = "%"
    /\ s[2] \in DOMAIN HexVal
    /\ s[3] \in DOMAIN HexVal
    /\ \E c \in Alphabet : Code[c] = EscapedByte(s[2], s[3])

\* qstring's decode: percent_decode(s).decode_utf8(); an escape becomes the
\* byte it names, a `%` that starts no escape is kept.
RECURSIVE decode(_)
decode(s) ==
    IF s = <<>> THEN <<>>
    ELSE IF StartsWithEscape(s)
    THEN <<CHOOSE c \in Alphabet : Code[c] = EscapedByte(s[2], s[3])>>
             \o decode(From(s, 4))
    ELSE <<Head(s)>> \o decode(Tail(s))

\* The bytes qstring's Display escapes: the C0 controls and DEL, the
\* non-ASCII bytes, and space, `"`, `<`, `>`, backquote.
InEncodeSet(c) ==
    \/ Code[c] < 32
    \/ Code[c] >= 127
    \/ Code[c] \in {32, 34, 60, 62, 96}

\* the upper-case hexadecimal digit of a value below 16
HexDigit(n) == CHOOSE c \in {"2", "3", "5"} : HexVal[c] = n

\* qstring's encode: utf8_percent_encode(s, set)
RECURSIVE encode(_)
encode(s) ==
    IF s = <<>> THEN <<>>
    ELSE (IF InEncodeSet(Head(s))
          THEN <<"%", HexDigit(Code[Head(s)] \div 16), HexDigit(Code[Head(s)] % 16)>>
          ELSE <<Head(s)>>) \o encode(Tail(s))

(***************************************************************************)
(* QString: a list of <<key, value>> pairs.                                *)
(***************************************************************************)
\* QString::from(origin).into_pairs(): the pairs of a raw query string, keys
\* and values percent-decoded; a parameter without `=` has the value "".
RECURSIVE str_to_pairs(_)
str_to_pairs(cur) ==
    IF cur = <<>> THEN <<>>
    ELSE IF Head(cur) = "&" THEN str_to_pairs(Tail(cur))
    ELSE LET eq == Find(cur, "=")
             amp == Find(cur, "&")
         IN  IF eq = 0 \/ (amp # 0 /\ amp < eq)
             THEN \* a name without a value
                  IF amp = 0
                  THEN << <<decode(cur), <<>>>> >>
                  ELSE << <<decode(Upto(cur, amp)), <<>>>> >>
                           \o str_to_pairs(From(cur, amp + 1))
             ELSE LET name == Upto(cur, eq)
                      rest == From(cur, eq + 1)
                      pos == Find(rest, "&")
                      value == IF pos = 0 THEN rest ELSE Upto(rest, pos)
                      newcur == IF pos = 0 THEN <<>> ELSE From(rest, pos + 1)
                  IN  IF name = <<>>
                      THEN \* a parameter with no name is skipped
                           str_to_pairs(rest)
                      ELSE << <<decode(name), decode(value)>> >>
                               \o str_to_pairs(newcur)

\* QString::from(origin): a leading `?` is dropped
QString_from(origin) ==
    IF origin # <<>> /\ Head(origin) = "?"
    THEN str_to_pairs(Tail(origin))
    ELSE str_to_pairs(origin)

\* Display for QString: key=value pairs, percent-encoded, joined by `&`
RECURSIVE Display(_)
Display(pairs) ==
    IF pairs = <<>> THEN <<>>
    ELSE encode(Head(pairs)[1]) \o <<"=">> \o encode(Head(pairs)[2])
           \o (IF Len(pairs) = 1 THEN <<>> ELSE <<"&">> \o Display(Tail(pairs)))

\* stringify_query
stringify_query(query) ==
    IF query = <<>> THEN <<>> ELSE <<"?">> \o Display(query)

(***************************************************************************)
(* hmac_sha256                                                             *)
(***************************************************************************)
\* the environment holds no AXUM_SECRET
NoSecret == "unset"

\* the values AXUM_SECRET takes
Secrets == {"hunter2", "hunter3"}

\* the hexadecimal digits the digest is written with
Digits == <<"2", "3", "5", "a", "e">>

\* the position of a character among the characters of the model
Rank == [c \in Alphabet |-> Cardinality({d \in Alphabet : Code[d] < Code[c]})]

\* HMAC-SHA256 followed by hex::encode: a string of lower-case hexadecimal
\* digits that no two (key, data) share.
HexDigest(key, data) ==
    [i \in 1..(2 * Len(data) + 1) |->
        IF i = 1 THEN (IF key = "hunter2" THEN "2" ELSE "3")
        ELSE IF i % 2 = 0 THEN Digits[(Rank[data[i \div 2]] \div Len(Digits)) + 1]
        ELSE Digits[(Rank[data[i \div 2]] % Len(Digits)) + 1]]

\* the Err of hmac_sha256
ConfigError == "AXUM_SECRET not found"

\* hmac_sha256(data) in environment env: Ok(hex digest) or Err
hmac_sha256(data, env) ==
    IF env = NoSecret
    THEN [ok |-> FALSE, err |-> ConfigError]
    ELSE [ok |-> TRUE, val |-> HexDigest(env, data)]

(***************************************************************************)
(* build                                                                   *)
(***************************************************************************)
\* the place of pair p in the sorted list s: behind every pair whose key is
\* not greater
InsertSorted(p, s) ==
    LET n == Cardinality({i \in 1..Len(s) : ~StrLess(p[1], s[i][1])})
    IN  Upto(s, n + 1) \o <<p>> \o From(s, n + 1)

\* the list as HashMap::into_iter yielded it
sort_by_skipped(query) == query

\* query.sort_by(|(k1, _), (k2, _)| k1.cmp(k2)): a stable sort by key
RECURSIVE sort_by(_)
sort_by(query) ==
    IF query = <<>> THEN <<>>
    ELSE InsertSorted(query[Len(query)], sort_by(Upto(query, Len(query))))

\* the pair put where its key belongs among the sorted keys
add_pair_sorted(query, pair) == InsertSorted(pair, query)

\* query.add_pair(("signature", &signature)): one more pair, at the end
add_pair(query, pair) == Append(query, pair)

\* build(path, query) in environment env; entries is the mapping in the
\* order HashMap::into_iter yields it.
build(path, entries, env) ==
    LET query == sort_by(entries)
        signature == hmac_sha256(path \o stringify_query(query), env)
    IN  IF ~signature.ok
        THEN [ok |-> FALSE, err |-> signature.err, url |-> <<>>]
        ELSE [ok |-> TRUE, err |-> "",
              url |-> path \o stringify_query(
                          add_pair(query, <<SIGNATURE, signature.val>>))]

(***************************************************************************)
(* SignedUrl::from_request_parts                                           *)
(***************************************************************************)
\* Uri::path_and_query() of a request target: the fragment is dropped, the
\* path ends at the first `?`, and there is a query only behind a `?`.
path_and_query(target) ==
    LET hash == Find(target, "#")
        t == IF hash = 0 THEN target ELSE Upto(target, hash)
        q == Find(t, "?")
    IN  IF q = 0
        THEN [path |-> t, has_query |-> FALSE, query |-> <<>>]
        ELSE [path |-> Upto(t, q), has_query |-> TRUE, query |-> From(t, q + 1)]

\* the pairs of a list that satisfy / do not satisfy |(k, _)| k == "signature"
signature_parts(pairs) == SelectSeq(pairs, LAMBDA p : p[1] = SIGNATURE)

other_parts(pairs) == SelectSeq(pairs, LAMBDA p : p[1] # SIGNATURE)

\* what the extractor hands back, with the locals it computed on the way
Returned(ret, message, read, signature, unsigned_url) ==
    [ret |-> ret, status |-> IF ret = "Err" THEN 401 ELSE 0,
     message |-> message, read_secret |-> read,
     signature |-> signature, unsigned_url |-> unsigned_url]

\* the value of the last pair
first_last(parts) == parts[Len(parts)][2]

\* signature_parts.first().map(|(_, s)| s.to_string()): the value of the
\* first pair
first(parts) == parts[1][2]

\* the path without the query
unsigned_url_path_only(path, query) == path

\* format!("{}{}", url.path(), stringify_query(&query))
unsigned_url_of(path, query) == path \o stringify_query(query)

\* a comparison of the lengths alone
differs_in_length(signature, expected) == Len(signature) # Len(expected)

\* signature != hmac_sha256(&unsigned_url).unwrap()
differs(signature, expected) == signature # expected

\* from_request_parts with the digest computed before the signature
\* parameter is looked for
from_request_parts_hmac_first(url, env) ==
    IF ~url.has_query
    THEN Returned("panic", "", FALSE, <<>>, <<>>)
    ELSE LET pairs == QString_from(url.query)
             sig == signature_parts(pairs)
             unsigned_url == unsigned_url_of(url.path, other_parts(pairs))
             expected == hmac_sha256(unsigned_url, env)
         IN  IF ~expected.ok
             THEN Returned("panic", "", TRUE, <<>>, unsigned_url)
             ELSE IF sig = <<>>
             THEN Returned("Err", "Missing signature", TRUE, <<>>, unsigned_url)
             ELSE IF differs(first(sig), expected.val)
             THEN Returned("Err", "Invalid signature", TRUE, first(sig), unsigned_url)
             ELSE Returned("Ok", "", TRUE, first(sig), unsigned_url)

\* from_request_parts for the request target `url` in environment env.
\* ret is "Ok" (SignedUrl), "Err" (the rejection) or "panic" (an unwrap on
\* None or Err).
from_request_parts(url, env) ==
    IF ~url.has_query
    THEN Returned("panic", "", FALSE, <<>>, <<>>)
    ELSE LET pairs == QString_from(url.query)
             sig == signature_parts(pairs)
             unsigned_url == unsigned_url_of(url.path, other_parts(pairs))
             expected == hmac_sha256(unsigned_url, env)
         IN  IF sig = <<>>
             THEN Returned("Err", "Missing signature", FALSE, <<>>, <<>>)
             ELSE IF ~expected.ok
             THEN Returned("panic", "", TRUE, first(sig), unsigned_url)
             ELSE IF differs(first(sig), expected.val)
             THEN Returned("Err", "Invalid signature", TRUE, first(sig), unsigned_url)
             ELSE Returned("Ok", "", TRUE, first(sig), unsigned_url)

(***************************************************************************)
(* The inputs.                                                             *)
(***************************************************************************)
\* request paths
Paths == { <<"/", "p">>, <<"/">> }

\* keys of a parameter mapping: plain ones on both sides of "signature" in
\* byte order, and "signature" itself
KeySet == { <<"R">>, <<"U">>, <<"t">>, SIGNATURE }

\* values of a parameter mapping: plain, an escape (%52 is R), and a
\* character Display escapes
ValueSet == { <<"R">>, <<"S">>, <<"%", "5", "2">>, <<"\"">> }

\* the parameter mappings: at most MaxParams keys, each with one value
Mappings ==
    UNION { [ks -> ValueSet] : ks \in { x \in SUBSET KeySet : Cardinality(x) <= MaxParams } }

\* the orders HashMap::into_iter may yield the entries of mapping m in
Orderings(m) ==
    LET n == Cardinality(DOMAIN m)
    IN  { [i \in 1..n |-> <<f[i], m[f[i]]>>] :
            f \in { g \in [1..n -> DOMAIN m] : \A i, j \in 1..n : i # j => g[i] # g[j] } }

\* what a changed parameter value is changed to
TamperValues ==
    (ValueSet \ { <<"\"">> })
      \cup { <<>>, <<"%", "5", "3">>, <<"%", "2", "2">>, <<"%", "2", "5", "5", "2">> }

\* the non-signature parameters of a hand-made request, as written in it
RequestParams ==
    { <<"R", "=", "S">>, <<"t", "=", "R">>, <<"R", "=", "%", "5", "3">>, <<"U">> }

\* how the value of a signature parameter of a hand-made request is chosen
SignatureChoices == { "sorted", "as written", "other" }

\* the parameters of a hand-made request
Segments ==
    [sig : {FALSE}, raw : RequestParams, how : {""}]
      \cup [sig : {TRUE}, raw : {<<>>}, how : SignatureChoices]

\* sequences over S of length at most n
SeqUpTo(S, n) == UNION { [1..k -> S] : k \in 0..n }

\* the strings of a list joined by `&`
RECURSIVE Join(_)
Join(strs) ==
    IF strs = <<>> THEN <<>>
    ELSE Head(strs) \o (IF Len(strs) = 1 THEN <<>> ELSE <<"&">> \o Join(Tail(strs)))

(***************************************************************************)
(* The state machine.  `built` and `request` hold one issued URL and one    *)
(* request for it, or one hand-made request; the next call is made when    *)
(* these results have been dropped (Forget).  AXUM_SECRET is set or        *)
(* removed before a URL is issued or a request served, not between the     *)
(* two: the secret a URL was signed with is the one it is verified with.   *)
(***************************************************************************)
NoBuild ==
    [called |-> FALSE, path |-> <<>>, query |-> <<>>, env |-> NoSecret,
     ok |-> FALSE, err |-> "", url |-> <<>>]

NoRequest ==
    [kind |-> "none", target |-> <<>>, path |-> <<>>, params |-> <<>>,
     sigs |-> <<>>, idx |-> 0, val |-> <<>>]

NoOutcome == Returned("none", "", FALSE, <<>>, <<>>)

\* no call has been made since the last results were dropped
Idle == ~built.called /\ request.kind = "none"

\* build has returned a URL and no request for it has been made yet
Issued == built.ok /\ request.kind = "none"

Init ==
    /\ secret \in Secrets \cup {NoSecret}
    /\ built = NoBuild
    /\ request = NoRequest
    /\ outcome = NoOutcome

\* env::set_var("AXUM_SECRET", k)
SetVar(k) ==
    /\ Idle
    /\ secret # k
    /\ secret' = k
    /\ UNCHANGED <<built, request, outcome>>

\* env::remove_var("AXUM_SECRET")
RemoveVar ==
    /\ Idle
    /\ secret # NoSecret
    /\ secret' = NoSecret
    /\ UNCHANGED <<built, request, outcome>>

\* the results of the calls made so far are dropped
Forget ==
    /\ built.called \/ request.kind # "none"
    /\ built' = NoBuild
    /\ request' = NoRequest
    /\ outcome' = NoOutcome
    /\ UNCHANGED secret

\* a call build(path, m); the HashMap yields the entries of m in the order
\* entries
Build(path, m, entries) ==
    /\ Idle
    /\ built' = [called |-> TRUE, path |-> path, query |-> m, env |-> secret]
                   @@ build(path, entries, secret)
    /\ UNCHANGED <<secret, request, outcome>>

\* the extractor runs on request req
Extract(req) ==
    /\ request' = req
    /\ outcome' = from_request_parts(path_and_query(req.target), secret)
    /\ UNCHANGED <<secret, built>>

\* the URL build returned is requested as it is
Present ==
    /\ Issued
    /\ Extract([NoRequest EXCEPT !.kind = "built", !.target = built.url,
                                 !.path = built.path])

\* the signature build appended to the URL it returned: what follows the
\* last `=`
BuiltSignature ==
    LET eqs == {i \in 1..Len(built.url) : built.url[i] = "="}
    IN  From(built.url, (CHOOSE i \in eqs : \A j \in eqs : j <= i) + 1)

\* the entries of mapping m in ascending order of their keys
Ascending(m) ==
    CHOOSE e \in Orderings(m) : \A i \in 1..(Len(e) - 1) : StrLess(e[i][1], e[i + 1][1])

\* the URL build returned with the value of its i-th parameter replaced by w
WithValue(i, w) ==
    LET query == Ascending(built.query)
        segs == [j \in 1..Len(query) |->
                    encode(query[j][1]) \o <<"=">>
                      \o (IF j = i THEN w ELSE encode(query[j][2]))]
    IN  built.path \o <<"?">> \o Join(Append(segs, SIGNATURE \o <<"=">> \o BuiltSignature))

\* the URL build returned is requested with the value of one parameter
\* changed
TamperValue(i, w) ==
    /\ Issued
    /\ w # encode(Ascending(built.query)[i][2])
    /\ Extract([NoRequest EXCEPT !.kind = "value", !.target = WithValue(i, w),
                                 !.path = built.path, !.idx = i, !.val = w])

\* the URL build returned with the value of the appended signature replaced
WithSignature(s) == Upto(built.url, Len(built.url) - Len(BuiltSignature) + 1) \o s

\* what the signature value is replaced by: nothing, a word, the digest with
\* its last digit changed, the digest with its first digit escaped (%32 is
\* 2, %33 is 3), the digest under the other secret, and the digest of the
\* URL as the extractor reads it
Forgeries ==
    IF ~Issued THEN {}
    ELSE LET h == BuiltSignature
             read == path_and_query(built.url)
         IN  { <<>>, <<"R">>,
               Upto(h, Len(h)) \o <<IF h[Len(h)] = "2" THEN "3" ELSE "2">>,
               <<"%", "3", Head(h)>> \o Tail(h),
               HexDigest(CHOOSE k \in Secrets : k # built.env, built.path),
               HexDigest(built.env,
                         read.path \o stringify_query(other_parts(QString_from(read.query))))
             } \ {h}

\* the URL build returned is requested with another signature value
TamperSignature(s) ==
    /\ Issued
    /\ Extract([NoRequest EXCEPT !.kind = "signature", !.target = WithSignature(s),
                                 !.path = built.path, !.val = s])

\* the pairs a client means by the non-signature parameters it wrote
Meant(segs) ==
    LET ps == SelectSeq(segs, LAMBDA g : ~g.sig)
    IN  [j \in 1..Len(ps) |->
            LET eq == Find(ps[j].raw, "=")
            IN  IF eq = 0 THEN <<decode(ps[j].raw), <<>>>>
                ELSE <<decode(Upto(ps[j].raw, eq)), decode(From(ps[j].raw, eq + 1))>>]

\* the signature value a client writes: the digest build computes for the
\* parameters it means, the digest of the parameters in the order written,
\* or a word
Chosen(path, segs, how) ==
    LET key == IF secret = NoSecret THEN "hunter2" ELSE secret
    IN  CASE how = "sorted" ->
               HexDigest(key, path \o stringify_query(sort_by(Meant(segs))))
          [] how = "as written" ->
               HexDigest(key, path \o stringify_query(Meant(segs)))
          [] OTHER -> <<"S">>

\* the request target of a hand-made request
Written(path, segs) ==
    path \o <<"?">>
      \o Join([j \in 1..Len(segs) |->
                 IF segs[j].sig
                 THEN SIGNATURE \o <<"=">> \o Chosen(path, segs, segs[j].how)
                 ELSE segs[j].raw])

\* a request written by hand: a path and a query of parameters
Request(path, segs) ==
    /\ Idle
    /\ Extract([NoRequest EXCEPT
                  !.kind = "written", !.target = Written(path, segs), !.path = path,
                  !.params = Meant(segs),
                  !.sigs = LET ss == SelectSeq(segs, LAMBDA g : g.sig)
                           IN  [j \in 1..Len(ss) |-> Chosen(path, segs, ss[j].how)]])

\* a request whose target has no query component
RequestNoQuery(path) ==
    /\ Idle
    /\ Extract([NoRequest EXCEPT !.kind = "no query", !.target = path, !.path = path])

Next ==
    \/ \E k \in Secrets : SetVar(k)
    \/ RemoveVar
    \/ Forget
    \/ Idle /\ \E path \in Paths, m \in Mappings :
                 \E entries \in Orderings(m) : Build(path, m, entries)
    \/ Present
    \/ Issued /\ \E i \in 1..Cardinality(DOMAIN built.query), w \in TamperValues :
                   TamperValue(i, w)
    \/ Issued /\ \E s \in Forgeries : TamperSignature(s)
    \/ Idle /\ \E path \in Paths, segs \in SeqUpTo(Segments, MaxSegs) : Request(path, segs)
    \/ \E path \in Paths : RequestNoQuery(path)

Spec == Init /\ [][Next]_vars

(***************************************************************************)
(* What the claims speak of.                                               *)
(***************************************************************************)
\* the rejection the extractor returned carries 401 and this message
Rejected(message) ==
    outcome.ret = "Err" /\ outcome.status = 401 /\ outcome.message = message

InvalidSignature == Rejected("Invalid signature")

MissingSignature == Rejected("Missing signature")

Accepted == outcome.ret = "Ok"

\* a string that holds none of the characters in cs
Without(str, cs) == \A i \in 1..Len(str) : str[i] \notin cs

\* text that can stand in the query of a request target in the place of one
\* value: no `&`, no `#`, no character that has to be escaped
QueryText(str) ==
    /\ Without(str, {"&", "#"})
    /\ \A i \in 1..Len(str) : ~InEncodeSet(str[i])

\* a key or value that reads the same written, escaped and unescaped: query
\* text without `%` and `=`
Plain(str) == QueryText(str) /\ Without(str, {"%", "="})

\* a mapping of plain values under plain keys, none of them empty or
\* "signature"
PlainMapping(m) ==
    \A k \in DOMAIN m : k # <<>> /\ k # SIGNATURE /\ Plain(k) /\ Plain(m[k])

\* key=value of a pair, as given
Verbatim(pair) == pair[1] \o <<"=">> \o pair[2]

\* key=value of a pair, key and value percent-encoded
Escaped(pair) == encode(pair[1]) \o <<"=">> \o encode(pair[2])

\* canonicalize(P, Q) with the pairs written verbatim: P alone for the empty
\* mapping, otherwise P?k=v&... in ascending order of the keys
CanonicalVerbatim(path, m) ==
    IF DOMAIN m = {} THEN path
    ELSE path \o <<"?">>
           \o Join([j \in 1..Cardinality(DOMAIN m) |-> Verbatim(Ascending(m)[j])])

\* the same with keys and values percent-encoded
CanonicalEscaped(path, m) ==
    IF DOMAIN m = {} THEN path
    ELSE path \o <<"?">>
           \o Join([j \in 1..Cardinality(DOMAIN m) |-> Escaped(Ascending(m)[j])])

\* canonical, then `&` (or `?` for the empty mapping), then signature= and
\* the digest of canonical under the secret build read
Signed(canonical, m) ==
    canonical \o <<IF DOMAIN m = {} THEN "?" ELSE "&">> \o SIGNATURE \o <<"=">>
      \o HexDigest(built.env, canonical)

\* C1: the URL build returned, requested as it is while the secret is the
\* one it was signed with, is accepted, whatever the path, keys and values.
C1_RoundTripAccepted ==
    (request.kind = "built" /\ secret = built.env) => Accepted

\* C2: a request P?Q&signature=S is accepted exactly when S is the digest
\* build computes for (P, Q), the HMAC over P and Q sorted by key, in
\* whatever order the parameters of Q are written.
C2_AcceptedIffBuildDigest ==
    (request.kind = "written" /\ Len(request.sigs) = 1 /\ secret # NoSecret) =>
        (Accepted <=>
            request.sigs[1] =
                HexDigest(secret, request.path \o stringify_query(sort_by(request.params))))

C5_MissingSignatureFirst ==
    (request.kind = "written" /\ request.sigs = <<>>) =>
        MissingSignature /\ ~outcome.read_secret

C5_Witness ==
    /\ request.kind = "written"
    /\ request.sigs = <<>>
    /\ Len(request.params) = 2
    /\ secret = NoSecret
    /\ MissingSignature

\* C6: without a secret, build returns Err("AXUM_SECRET not found") and no
\* URL, and the extractor returns an error value for a request that carries
\* a signature.
C6_ConfigErrorReturned ==
    /\ (built.called /\ built.env = NoSecret) =>
          ~built.ok /\ built.err = ConfigError /\ built.url = <<>>
    /\ (request.kind = "written" /\ request.sigs # <<>> /\ secret = NoSecret) =>
          outcome.ret = "Err"

\* C7: when build returns, the URL it returns for a path and a mapping under
\* a secret is the same whatever order the entries of the mapping are
\* iterated in.
C7_OrderIndependent ==
    (built.called /\ request.kind = "none") =>
        \A entries \in Orderings(built.query) :
            LET again == build(built.path, entries, built.env)
            IN  again.ok = built.ok /\ again.err = built.err /\ again.url = built.url

C7_Witness ==
    /\ built.ok
    /\ request.kind = "none"
    /\ Cardinality(DOMAIN built.query) = 2

C9_Total ==
    (request.kind # "none" /\ secret # NoSecret) =>
        /\ outcome.ret \in {"Ok", "Err"}
        /\ request.kind = "no query" => MissingSignature

\* C10: of several parameters with the key "signature" the first is the one
\* compared with the digest, and the digest is taken over the path and all
\* the other parameters, in the order written, none of the signature
\* parameters among them.
C10_FirstSignatureCompared ==
    (request.kind = "written" /\ request.sigs # <<>> /\ secret # NoSecret) =>
        /\ outcome.signature = request.sigs[1]
        /\ outcome.unsigned_url =
              request.path
                \o (IF request.params = <<>> THEN <<>>
                    ELSE <<"?">> \o Join([j \in 1..Len(request.params) |->
                                             Escaped(request.params[j])]))
        /\ Accepted <=> request.sigs[1] = HexDigest(secret, outcome.unsigned_url)

C10_Witness ==
    /\ request.kind = "written"
    /\ Len(request.sigs) = 2
    /\ request.sigs[1] # request.sigs[2]
    /\ request.params # <<>>
    /\ Accepted

=============================================================================
